---------------------------- MODULE Spec2Model ----------------------------
(***************************************************************************)
(* PCVisor packet-classification evaluation framework.                     *)
(*                                                                         *)
(* Three specifications over one set of variables:                         *)
(*   Spec       the evaluation driver main() of pc_eval.c together with    *)
(*              the three loaders, stepped one loop iteration at a time;   *)
(*   SpecRule   the body of the rule loaders applied to one scanned line   *)
(*              (32/64-bit arithmetic kept bit-exact);                     *)
(*   SpecEngine the HyperSplit and TSS engines, whose sources (hs.c,       *)
(*              tss.c) and pc_eval.h are not part of src/ and are          *)
(*              modelled from spec.md sections 3, 4.2 and 4.3.             *)
(***************************************************************************)
EXTENDS Integers, Sequences, FiniteSets, TLC

VARIABLES
    \* ---- driver (main, parse_args, loaders) ----
    pc,         \* position in main / the loader being run
    cfg,        \* static cfg struct: rule_file, u_rule_file, trace_file, algrthm_id
    nargs,      \* options getopt_long has returned so far
    rs,         \* struct rule_set rs   : [buf, num]
    u_rs,       \* struct rule_set u_rs : [buf, num]
    t,          \* struct trace t       : [buf, num]
    rt,         \* void *rt: state of the engine's index storage
    ld,         \* the running loader call: kind, target, file, position
    oplog,      \* engine operations invoked / returned, in order
    timediff,   \* last value of make_timediff
    pps,        \* the "Searching speed" line main has printed
    term,       \* how the process ended: "running", "exit", "signal"
    status,     \* exit status (or signal number)
    hist,       \* what happened in this run (ghost)
    \* ---- one scanned rule line ----
    r_pc, r_line, r_out,
    \* ---- engines ----
    e_pc, e_alg, e_rs, e_delta, e_idx, e_pkt, e_res

drv  == <<pc, cfg, nargs, rs, u_rs, t, rt, ld, oplog, timediff, pps, term, status, hist>>
rule == <<r_pc, r_line, r_out>>
eng  == <<e_pc, e_alg, e_rs, e_delta, e_idx, e_pkt, e_res>>
vars == <<drv, rule, eng>>

NULL == "NULL"

\* the value of each group of variables under the specifications that do not use it
DrvIdle ==
    /\ pc = "off" /\ cfg = NULL /\ nargs = 0 /\ rs = NULL /\ u_rs = NULL
    /\ t = NULL /\ rt = NULL /\ ld = NULL /\ oplog = <<>> /\ timediff = 0
    /\ pps = NULL /\ term = "off" /\ status = 0 /\ hist = {}
RuleIdle == r_pc = "off" /\ r_line = NULL /\ r_out = NULL
EngIdle ==
    /\ e_pc = "off" /\ e_alg = 0 /\ e_rs = <<>> /\ e_delta = <<>>
    /\ e_idx = NULL /\ e_pkt = NULL /\ e_res = NULL

Min(a, b) == IF a < b THEN a ELSE b

RECURSIVE Pow2(_)
Pow2(n) == IF n = 0 THEN 1 ELSE 2 * Pow2(n - 1)

(***************************************************************************)
(* Fixed-width unsigned words.  TLC's integers stop at 2^31-1 and the      *)
(* code's uint32_t and unsigned long long do not, so a word is a sequence  *)
(* of 16-bit limbs, most significant first: two limbs for uint32_t, four   *)
(* for unsigned long long.                                                 *)
(***************************************************************************)
\* bitwise and / or of two non-negative integers below 2^31
RECURSIVE IntAnd(_, _)
IntAnd(a, b) ==
    IF a = 0 \/ b = 0 THEN 0
    ELSE (a % 2) * (b % 2) + 2 * IntAnd(a \div 2, b \div 2)

RECURSIVE IntOr(_, _)
IntOr(a, b) ==
    IF a = 0 THEN b
    ELSE IF b = 0 THEN a
    ELSE (IF (a % 2) + (b % 2) > 0 THEN 1 ELSE 0) + 2 * IntOr(a \div 2, b \div 2)

\* the uint32_t of a non-negative integer below 2^31
U32(n) == <<n \div 65536, n % 65536>>
\* the unsigned long long of a non-negative integer below 2^31
U64(n) == <<0, 0, n \div 65536, n % 65536>>

WAnd(a, b) == [k \in DOMAIN a |-> IntAnd(a[k], b[k])]
WOr(a, b)  == [k \in DOMAIN a |-> IntOr(a[k], b[k])]
WNot(a)    == [k \in DOMAIN a |-> 65535 - a[k]]

\* a << n in the word's own width (bits shifted out are lost), 0 <= n
RECURSIVE WShl(_, _)
WShl(a, n) ==
    IF n >= 16
    THEN WShl([k \in DOMAIN a |-> IF k < Len(a) THEN a[k + 1] ELSE 0], n - 16)
    ELSE [k \in DOMAIN a |->
            ((a[k] * Pow2(n)) % 65536)
              + (IF k < Len(a) THEN a[k + 1] \div Pow2(16 - n) ELSE 0)]

\* a - 1 modulo 2^width
WDec(a) ==
    LET nz  == {k \in DOMAIN a : a[k] # 0}
        low == IF nz = {} THEN 0 ELSE CHOOSE k \in nz : \A j \in nz : j <= k
    IN  [k \in DOMAIN a |->
            IF k < low THEN a[k] ELSE IF k = low THEN a[k] - 1 ELSE 65535]

\* conversion to uint32_t: the low two limbs
WTrunc32(a) == <<a[Len(a) - 1], a[Len(a)]>>

\* unsigned comparison a <= b
WLeq(a, b) ==
    LET diff == {k \in DOMAIN a : a[k] # b[k]}
    IN  \/ diff = {}
        \/ LET k == CHOOSE x \in diff : \A y \in diff : x <= y IN a[k] < b[k]

\* bit k of a uint32_t, k = 1 the most significant, k = 32 the least
Bit32(a, k) ==
    IF k <= 16 THEN (a[1] \div Pow2(16 - k)) % 2 ELSE (a[2] \div Pow2(32 - k)) % 2

(***************************************************************************)
(* Dimensions                                                              *)
(***************************************************************************)
DIM_SIP   == 1
DIM_DIP   == 2
DIM_SPORT == 3
DIM_DPORT == 4
DIM_PROTO == 5
DIM_MAX   == 5
Dims == 1..DIM_MAX

\* width in bits of each dimension
W == <<32, 32, 16, 16, 8>>

(***************************************************************************)
(* One scanned rule line: the 17 values fscanf stores (uint32_t each).     *)
(*   sip, dip   the four octets;  sm, dm  the mask lengths                 *)
(*   sp1, sp2   src_port_begin/src_port_end (range format) or              *)
(*              src_port/src_port_mask (prefix format); dp1, dp2 likewise  *)
(*   proto, pm  protocol and protocol mask;  id  rule_id                   *)
(***************************************************************************)

\* ((ip_0 & 0xff) << 24) | ((ip_1 & 0xff) << 16) | ((ip_2 & 0xff) << 8) | (ip_3 & 0xff)
IpOf(o) ==
    WOr(WOr(WShl(U32(IntAnd(o[1], 255)), 24),
            WShl(U32(IntAnd(o[2], 255)), 16)),
        WOr(WShl(U32(IntAnd(o[3], 255)), 8),
            U32(IntAnd(o[4], 255))))

\* ip_mask = ip_mask > 32 ? 32 : ip_mask
ClampLen_Mut(m) == m
ClampLen(m) == IF m > 32 THEN 32 ELSE m

\* (uint32_t)(~((1ULL << (32 - ip_mask)) - 1))
\* a 32-bit shift instead of the 64-bit one: 1U << 32 leaves 1 on x86
IpMask_Mut(m) == WNot(WDec(WShl(U32(1), (32 - m) % 32)))
IpMask(m) == WTrunc32(WNot(WDec(WShl(U64(1), 32 - m))))

\* rule_id - 1 in uint32_t, stored into the int pri
PriOf(id) == id - 1

\* ports of a range rule: masked to 16 bits, swapped when out of order
PortRange_Mut(b, e) == <<IntAnd(b, 65535), IntAnd(e, 65535)>>
PortRange(b, e) ==
    LET lo == IntAnd(b, 65535)
        hi == IntAnd(e, 65535)
    IN  IF lo > hi THEN <<hi, lo>> ELSE <<lo, hi>>

\* the protocol branch both loaders share: which masks are accepted
ProtoMaskOk_Mut(pm) == TRUE
ProtoMaskOk(pm) == pm = 255 \/ pm = 0

\* range form of the protocol field
CbProto_Mut(proto, pm) == <<IntAnd(proto, 255), IntAnd(proto, 255)>>
CbProto(proto, pm) ==
    IF pm = 255 THEN <<IntAnd(proto, 255), IntAnd(proto, 255)>> ELSE <<0, 255>>

\* the range rule load_cb_rules stores for a line it accepts
CbRuleOf(ln) ==
    LET src_ip      == IpOf(ln.sip)
        src_ip_mask == IpMask(ClampLen(ln.sm))
        dst_ip      == IpOf(ln.dip)
        dst_ip_mask == IpMask(ClampLen(ln.dm))
    IN  [dim |-> << <<WAnd(src_ip, src_ip_mask), WOr(src_ip, WNot(src_ip_mask))>>,
                    <<WAnd(dst_ip, dst_ip_mask), WOr(dst_ip, WNot(dst_ip_mask))>>,
                    PortRange(ln.sp1, ln.sp2),
                    PortRange(ln.dp1, ln.dp2),
                    CbProto(ln.proto, ln.pm) >>,
         pri |-> PriOf(ln.id)]

\* prefix form of the protocol field: <<value, length>>
PrfxProto(proto, pm) ==
    IF pm = 255 THEN <<IntAnd(proto, 255), 8>> ELSE <<0, 0>>

\* the prefix rule load_prfx_rules stores for a line it accepts
PrfxRuleOf(ln) ==
    LET src_ip == IpOf(ln.sip)
        sl     == ClampLen(ln.sm)
        dst_ip == IpOf(ln.dip)
        dl     == ClampLen(ln.dm)
        pp     == PrfxProto(ln.proto, ln.pm)
    IN  [dim |-> <<WAnd(src_ip, IpMask(sl)), WAnd(dst_ip, IpMask(dl)),
                   IntAnd(ln.sp1, 65535), IntAnd(ln.dp1, 65535), pp[1]>>,
         len |-> <<sl, dl, ln.sp2, ln.dp2, pp[2]>>,
         pri |-> PriOf(ln.id)]


(***************************************************************************)
(* The evaluation driver: cfg, parse_args, main and the loaders.           *)
(***************************************************************************)
\* capacity of the rule and packet buffers (pc_eval.h; 1,048,576 by default
\* in spec section 6).  The model runs the loaders with a cap of 2.
RULE_MAX == 2
PKT_MAX  == 2
ALGO_NUM == 2

MaxArgs    == 4     \* options on the command line
MaxFileLen == 3     \* records in an input file (above both caps)
MaxElapsed == 2     \* microseconds between two gettimeofday readings

SeqsUpTo(S, n) == UNION {[1..k -> S] : k \in 0..n}

\* the dispatch table
algrthms ==
    [id \in 0..(ALGO_NUM - 1) |->
        IF id = 0
        THEN [load_rules |-> "load_cb_rules", build |-> "hs_build",
              insrt_update |-> "hs_insrt_update", search |-> "hs_search",
              cleanup |-> "hs_cleanup"]
        ELSE [load_rules |-> "load_prfx_rules", build |-> "tss_build",
              insrt_update |-> "tss_build", search |-> "tss_search",
              cleanup |-> "tss_cleanup"]]

\* lines of a rule file: fmt says whether fscanf converts all 17 fields
DrvRuleLine(f, k) ==
    [fmt |-> f, sip |-> <<10, 1, 2, 3>>, sm |-> 8, dip |-> <<192, 168, 0, 1>>,
     dm |-> 32, sp1 |-> 1023, sp2 |-> 0, dp1 |-> 80, dp2 |-> 16,
     proto |-> 6, pm |-> k, id |-> 1]
RuleLines ==
    {DrvRuleLine("ok", 255), DrvRuleLine("ok", 0), DrvRuleLine("ok", 15),
     DrvRuleLine("bad", 0)}

\* lines of a trace file: the six values of PKT_FMT
PktLines ==
    {[fmt |-> "ok", sip |-> 167838211, dip |-> 16909060, sport |-> 65616,
      dport |-> 80, proto |-> 262, match |-> 1],
     [fmt |-> "bad", sip |-> 0, dip |-> 0, sport |-> 0, dport |-> 0,
      proto |-> 0, match |-> 0]}

\* the packet load_trace stores for a line it accepts
PacketOf(ln) ==
    [val |-> <<ln.sip, ln.dip, IntAnd(ln.sport, 65535), IntAnd(ln.dport, 65535),
               IntAnd(ln.proto, 255)>>,
     match |-> ln.match - 1]

NoLoad ==
    [kind |-> "none", tgt |-> "none", fp |-> "none", file |-> <<>>, total |-> 0,
     recs |-> 0, eof |-> FALSE, i |-> 0, wmax |-> -1, ret |-> "none"]

\* nothing printed yet
NoReport == [printed |-> FALSE, val |-> 0]

EmptyBuf == [alloc |-> FALSE, buf |-> <<>>, num |-> 0, src |-> <<>>]

DrvInit ==
    /\ pc = "main"
    /\ cfg = [rule_file |-> NULL, u_rule_file |-> NULL, trace_file |-> NULL,
              algrthm_id |-> 0]
    /\ nargs = 0
    /\ rs = EmptyBuf
    /\ u_rs = EmptyBuf
    /\ t = EmptyBuf
    /\ rt = "none"
    /\ ld = NoLoad
    /\ oplog = <<>>
    /\ timediff = 0
    /\ pps = NoReport
    /\ term = "running"
    /\ status = 0
    /\ hist = {}

Init == DrvInit /\ RuleIdle /\ EngIdle

\* exit(code): the status the parent sees is code & 0377
Exit(code, what) ==
    /\ term' = "exit"
    /\ status' = code % 256
    /\ hist' = hist \cup what
    /\ pc' = "done"

\* termination by a signal (abort, SIGFPE)
Killed(sig, what) ==
    /\ term' = "signal"
    /\ status' = sig
    /\ hist' = hist \cup what
    /\ pc' = "done"

\* main, lines 287-292
Main_Start ==
    /\ pc = "main"
    /\ \E argc \in 1..2 :
          IF argc < 2
          THEN Exit(-1, {"err:usage"})
          ELSE pc' = "parse_args" /\ UNCHANGED <<term, status, hist>>
    /\ UNCHANGED <<cfg, nargs, rs, u_rs, t, rt, ld, oplog, timediff, pps, rule, eng>>

Options ==
    {[o |-> "h", ok |-> TRUE, id |-> 0], [o |-> "?", ok |-> TRUE, id |-> 0]}
      \cup {[o |-> "a", ok |-> TRUE, id |-> n] : n \in 0..ALGO_NUM}
      \cup {[o |-> x, ok |-> b, id |-> 0] : x \in {"r", "t", "u"}, b \in BOOLEAN}

\* parse_args: one turn of the getopt_long loop
ParseArgs_Opt ==
    /\ pc = "parse_args"
    /\ nargs < MaxArgs
    /\ \E opt \in Options :
          /\ nargs' = nargs + 1
          /\ CASE opt.o = "h" ->
                    Exit(0, {"help"}) /\ UNCHANGED cfg
               [] opt.o = "a" ->
                    IF opt.id >= 0 /\ opt.id < ALGO_NUM
                    THEN /\ cfg' = [cfg EXCEPT !.algrthm_id = opt.id]
                         /\ UNCHANGED <<pc, term, status, hist>>
                    ELSE Killed(6, {"abort"}) /\ UNCHANGED cfg
               [] opt.o \in {"r", "t", "u"} ->
                    IF ~opt.ok
                    THEN Exit(-1, {"err:access"}) /\ UNCHANGED cfg
                    ELSE /\ cfg' = IF opt.o = "r" THEN [cfg EXCEPT !.rule_file = "rule_file"]
                                   ELSE IF opt.o = "t" THEN [cfg EXCEPT !.trace_file = "trace_file"]
                                   ELSE [cfg EXCEPT !.u_rule_file = "u_rule_file"]
                         /\ UNCHANGED <<pc, term, status, hist>>
               [] OTHER ->
                    Exit(-1, {"err:usage"}) /\ UNCHANGED cfg
    /\ UNCHANGED <<rs, u_rs, t, rt, ld, oplog, timediff, pps, rule, eng>>

\* parse_args: getopt_long returns -1
ParseArgs_End ==
    /\ pc = "parse_args"
    /\ pc' = "check_rule_file"
    /\ UNCHANGED <<cfg, nargs, rs, u_rs, t, rt, ld, oplog, timediff, pps, term, status,
                   hist, rule, eng>>

\* the loader call record at entry
StartLoad(kind, tgt, ret) ==
    [kind |-> kind, tgt |-> tgt, fp |-> "none", file |-> <<>>, total |-> 0,
     recs |-> 0, eof |-> FALSE, i |-> 0, wmax |-> -1, ret |-> ret]

\* main, lines 297-302
Main_LoadRules ==
    /\ pc = "check_rule_file"
    /\ IF cfg.rule_file = NULL
       THEN Exit(-1, {"err:norule"}) /\ UNCHANGED ld
       ELSE /\ ld' = StartLoad(algrthms[cfg.algrthm_id].load_rules, "rs", "build")
            /\ pc' = "load_open"
            /\ UNCHANGED <<term, status, hist>>
    /\ UNCHANGED <<cfg, nargs, rs, u_rs, t, rt, oplog, timediff, pps, rule, eng>>

Target(tgt) == IF tgt = "rs" THEN rs ELSE IF tgt = "u_rs" THEN u_rs ELSE t

SetTarget(tgt, v) ==
    /\ rs'   = IF tgt = "rs" THEN v ELSE rs
    /\ u_rs' = IF tgt = "u_rs" THEN v ELSE u_rs
    /\ t'    = IF tgt = "t" THEN v ELSE t

Cap(kind) == IF kind = "load_trace" THEN PKT_MAX ELSE RULE_MAX
LinesOf(kind) == IF kind = "load_trace" THEN PktLines ELSE RuleLines

\* load_*: fopen, calloc, num = 0
Load_Open ==
    /\ pc = "load_open"
    /\ \E fopen_ok \in BOOLEAN, calloc_ok \in BOOLEAN,
          f \in SeqsUpTo(LinesOf(ld.kind), MaxFileLen) :
          IF ~fopen_ok
          THEN /\ Exit(-1, {"err:fopen"})
               /\ UNCHANGED <<ld, rs, u_rs, t>>
          ELSE IF ~calloc_ok
          THEN /\ Exit(-1, {"err:calloc"})
               /\ ld' = [ld EXCEPT !.fp = "open"]
               /\ UNCHANGED <<rs, u_rs, t>>
          ELSE /\ ld' = [ld EXCEPT !.fp = "open", !.file = f, !.total = Len(f),
                                   !.recs = Cardinality({k \in DOMAIN f : f[k].fmt = "ok"})]
               /\ SetTarget(ld.tgt, [alloc |-> TRUE, buf |-> <<>>, num |-> 0, src |-> <<>>])
               /\ pc' = "load_loop"
               /\ UNCHANGED <<term, status, hist>>
    /\ UNCHANGED <<cfg, nargs, rt, oplog, timediff, pps, rule, eng>>

\* if (i >= RULE_MAX) / if (i >= PKT_MAX)
CapReached_Mut(i, cap) == i > cap
CapReached(i, cap) == i >= cap

\* feof() after a conversion that consumed the line and the white space
\* behind it (the formats are one record per line)
FeofAfter(rest) == rest = <<>>

\* the record a loader stores for an accepted line
StoredOf(kind, ln) ==
    IF kind = "load_cb_rules" THEN CbRuleOf(ln)
    ELSE IF kind = "load_prfx_rules" THEN PrfxRuleOf(ln)
    ELSE PacketOf(ln)

\* load_*: one turn of the while (!feof(fp)) loop
Load_Iter ==
    /\ pc = "load_loop"
    /\ ~ld.eof
    /\ LET cur == Target(ld.tgt)
       IN  IF CapReached(ld.i, Cap(ld.kind))
           THEN /\ Exit(-1, {"err:capacity"})
                /\ UNCHANGED <<ld, rs, u_rs, t>>
           ELSE IF ld.file = <<>> \/ Head(ld.file).fmt # "ok"
           THEN /\ Exit(-1, {"err:format"})
                /\ UNCHANGED <<ld, rs, u_rs, t>>
           ELSE LET ln == Head(ld.file)
                IN  IF ld.kind # "load_trace" /\ ~ProtoMaskOk(ln.pm)
                    THEN /\ Exit(-1, {"err:mask"})
                         /\ ld' = [ld EXCEPT !.file = Tail(ld.file)]
                         /\ SetTarget(ld.tgt, [cur EXCEPT !.src = Append(cur.src, ln)])
                    ELSE /\ ld' = [ld EXCEPT !.file = Tail(ld.file),
                                             !.eof = FeofAfter(Tail(ld.file)),
                                             !.i = ld.i + 1,
                                             !.wmax = ld.i]
                         /\ SetTarget(ld.tgt,
                                [cur EXCEPT !.buf = Append(cur.buf, StoredOf(ld.kind, ln)),
                                            !.num = cur.num + 1,
                                            !.src = Append(cur.src, ln)])
                         /\ UNCHANGED <<pc, term, status, hist>>
    /\ UNCHANGED <<cfg, nargs, rt, oplog, timediff, pps, rule, eng>>

\* load_*: the loop ends, fclose, return
Load_Return ==
    /\ pc = "load_loop"
    /\ ld.eof
    /\ ld' = [ld EXCEPT !.fp = "closed"]
    /\ pc' = ld.ret
    /\ hist' = hist \cup {"ok:" \o ld.kind \o ":" \o ld.tgt}
    /\ UNCHANGED <<cfg, nargs, rs, u_rs, t, rt, oplog, timediff, pps, term, status, rule, eng>>

\* unload_rules / unload_trace: the buffer is freed, num stays
Unloaded(b) == [b EXCEPT !.alloc = FALSE, !.buf = <<>>]

Call(op) == [ev |-> "call", op |-> op, fn |-> algrthms[cfg.algrthm_id][op], res |-> 0]
Ret(op, res) == [ev |-> "ret", op |-> op, fn |-> algrthms[cfg.algrthm_id][op], res |-> res]

\* make_timediff(&starttime, &stoptime) for the readings of one phase
Elapsed == 0..MaxElapsed

\* main, lines 306-307: the engine's build is entered
Main_Build ==
    /\ pc = "build"
    /\ oplog' = Append(oplog, Call("build"))
    /\ pc' = "in_build"
    /\ UNCHANGED <<cfg, nargs, rs, u_rs, t, rt, ld, timediff, pps, term, status, hist, rule, eng>>

\* where main continues when build / insrt_update / search has returned res
AfterOp_Mut(op, res) == op \o "_ok"
AfterOp(op, res) == IF res # 0 THEN op \o "_fail" ELSE op \o "_ok"

\* build returns: 0 with the index built, or non-zero, leaving either nothing
\* or the part of the index it had constructed behind *rt
Eng_BuildRet ==
    /\ pc = "in_build"
    /\ \E res \in {0, -1}, left \in {"none", "partial"} :
          /\ rt' = IF res = 0 THEN "built" ELSE left
          /\ oplog' = Append(oplog, Ret("build", res))
          /\ pc' = AfterOp("build", res)
    /\ UNCHANGED <<cfg, nargs, rs, u_rs, t, ld, timediff, pps, term, status, hist, rule, eng>>

\* main, lines 308-310
Main_BuildFail ==
    /\ pc = "build_fail"
    /\ rs' = Unloaded(rs)
    /\ Exit(-1, {"err:build"})
    /\ UNCHANGED <<cfg, nargs, u_rs, t, rt, ld, oplog, timediff, pps, rule, eng>>

\* main, lines 312-326
Main_BuildOk ==
    /\ pc = "build_ok"
    /\ \E d \in Elapsed : timediff' = d
    /\ rs' = Unloaded(rs)
    /\ hist' = hist \cup {"ok:build"}
    /\ IF cfg.u_rule_file # NULL
       THEN /\ ld' = StartLoad(algrthms[cfg.algrthm_id].load_rules, "u_rs", "insrt_update")
            /\ pc' = "load_open"
       ELSE /\ pc' = "check_trace"
            /\ UNCHANGED ld
    /\ UNCHANGED <<cfg, nargs, u_rs, t, rt, oplog, pps, term, status, rule, eng>>

\* main, lines 328-329
Main_Update ==
    /\ pc = "insrt_update"
    /\ oplog' = Append(oplog, Call("insrt_update"))
    /\ pc' = "in_insrt_update"
    /\ UNCHANGED <<cfg, nargs, rs, u_rs, t, rt, ld, timediff, pps, term, status, hist, rule, eng>>

Eng_UpdateRet ==
    /\ pc = "in_insrt_update"
    /\ \E res \in {0, -1} :
          /\ oplog' = Append(oplog, Ret("insrt_update", res))
          /\ pc' = AfterOp("insrt_update", res)
    /\ UNCHANGED <<cfg, nargs, rs, u_rs, t, rt, ld, timediff, pps, term, status, hist, rule, eng>>

\* main, lines 330-332
Main_UpdateFail ==
    /\ pc = "insrt_update_fail"
    /\ u_rs' = Unloaded(u_rs)
    /\ Exit(-1, {"err:update"})
    /\ UNCHANGED <<cfg, nargs, rs, t, rt, ld, oplog, timediff, pps, rule, eng>>

\* main, lines 334-340
Main_UpdateOk ==
    /\ pc = "insrt_update_ok"
    /\ \E d \in Elapsed : timediff' = d
    /\ u_rs' = Unloaded(u_rs)
    /\ hist' = hist \cup {"ok:insrt_update"}
    /\ pc' = "check_trace"
    /\ UNCHANGED <<cfg, nargs, rs, t, rt, ld, oplog, pps, term, status, rule, eng>>

\* main, lines 346-351
Main_CheckTrace ==
    /\ pc = "check_trace"
    /\ IF cfg.trace_file = NULL
       THEN /\ oplog' = Append(oplog, Call("cleanup"))
            /\ pc' = "in_cleanup_347"
            /\ UNCHANGED ld
       ELSE /\ ld' = StartLoad("load_trace", "t", "search")
            /\ pc' = "load_open"
            /\ UNCHANGED oplog
    /\ UNCHANGED <<cfg, nargs, rs, u_rs, t, rt, timediff, pps, term, status, hist, rule, eng>>

\* main, lines 355-356
Main_Search ==
    /\ pc = "search"
    /\ oplog' = Append(oplog, Call("search"))
    /\ pc' = "in_search"
    /\ UNCHANGED <<cfg, nargs, rs, u_rs, t, rt, ld, timediff, pps, term, status, hist, rule, eng>>

Eng_SearchRet ==
    /\ pc = "in_search"
    /\ \E res \in {0, -1} :
          /\ oplog' = Append(oplog, Ret("search", res))
          /\ pc' = AfterOp("search", res)
    /\ UNCHANGED <<cfg, nargs, rs, u_rs, t, rt, ld, timediff, pps, term, status, hist, rule, eng>>

\* main, lines 357-359
Main_SearchFail ==
    /\ pc = "search_fail"
    /\ t' = Unloaded(t)
    /\ hist' = hist \cup {"err:search"}
    /\ oplog' = Append(oplog, Call("cleanup"))
    /\ pc' = "in_cleanup_359"
    /\ UNCHANGED <<cfg, nargs, rs, u_rs, rt, ld, timediff, pps, term, status, rule, eng>>

\* (t.num * 1000000ULL) / timediff
Throughput(num, d) == (num * 1000000) \div d

\* what a division by zero that does not trap may leave as its quotient
UndefQuot == {0, 2147483647}

\* main, lines 362-370.  (t.num * 1000000ULL) / timediff with timediff = 0 is
\* undefined: the division traps (SIGFPE), or it yields some quotient and the
\* run carries on.
Main_SearchOk ==
    /\ pc = "search_ok"
    /\ \E d \in Elapsed, trap \in BOOLEAN, q \in UndefQuot :
          /\ timediff' = d
          /\ IF d = 0 /\ trap
             THEN /\ Killed(8, {"ok:search", "sigfpe"})
                  /\ UNCHANGED <<t, oplog, pps>>
             ELSE /\ pps' = [printed |-> TRUE,
                             val |-> IF d = 0 THEN q ELSE Throughput(t.num, d)]
                  /\ t' = Unloaded(t)
                  /\ hist' = hist \cup {"ok:search"}
                  /\ oplog' = Append(oplog, Call("cleanup"))
                  /\ pc' = "in_cleanup_370"
                  /\ UNCHANGED <<term, status>>
    /\ UNCHANGED <<cfg, nargs, rs, u_rs, rt, ld, rule, eng>>

\* cleanup returns to its call site: return 0 (347, 370) or exit(-1) (359)
Eng_CleanupRet ==
    /\ pc \in {"in_cleanup_347", "in_cleanup_359", "in_cleanup_370"}
    /\ rt' = "freed"
    /\ oplog' = Append(oplog, Ret("cleanup", 0))
    /\ IF pc = "in_cleanup_359" THEN Exit(-1, {}) ELSE Exit(0, {})
    /\ UNCHANGED <<cfg, nargs, rs, u_rs, t, ld, timediff, pps, rule, eng>>

DrvNext ==
    \/ Main_Start \/ ParseArgs_Opt \/ ParseArgs_End \/ Main_LoadRules
    \/ Load_Open \/ Load_Iter \/ Load_Return
    \/ Main_Build \/ Eng_BuildRet \/ Main_BuildFail \/ Main_BuildOk
    \/ Main_Update \/ Eng_UpdateRet \/ Main_UpdateFail \/ Main_UpdateOk
    \/ Main_CheckTrace \/ Main_Search \/ Eng_SearchRet \/ Main_SearchFail
    \/ Main_SearchOk \/ Eng_CleanupRet

Next == DrvNext

Spec == Init /\ [][Next]_vars

(***************************************************************************)
(* Properties of the driver                                                *)
(***************************************************************************)
Rank(op) ==
    CASE op = "build" -> 1 [] op = "insrt_update" -> 2 [] op = "search" -> 3
      [] op = "cleanup" -> 4

Called(op) == \E k \in DOMAIN oplog : oplog[k].ev = "call" /\ oplog[k].op = op

\* C2: the engine operations happen in the order build, insrt_update (only
\* with an update file), search (only with a trace file), cleanup; each is
\* invoked at most once and returns before the next is invoked; insrt_update
\* and search are invoked only after build returned 0; nothing follows cleanup.
C2_OpOrder ==
    \A k \in DOMAIN oplog :
        /\ (k % 2 = 1) => oplog[k].ev = "call"
        /\ (k % 2 = 0) => oplog[k].ev = "ret" /\ oplog[k].op = oplog[k - 1].op
        /\ k = 1 => oplog[k].op = "build"
        /\ (k % 2 = 1 /\ k >= 3) => Rank(oplog[k].op) > Rank(oplog[k - 2].op)
        /\ oplog[k].op = "insrt_update" => cfg.u_rule_file # NULL
        /\ oplog[k].op = "search" => cfg.trace_file # NULL
        /\ oplog[k].op \in {"insrt_update", "search"} =>
              oplog[2].op = "build" /\ oplog[2].res = 0

\* a run that went through all four operations
C2_Witness ==
    /\ term = "exit"
    /\ Len(oplog) = 8
    /\ oplog[3].op = "insrt_update" /\ oplog[5].op = "search" /\ oplog[7].op = "cleanup"

Errors == {"err:usage", "err:norule", "err:access", "err:fopen", "err:calloc",
           "err:capacity", "err:format", "err:mask", "err:build", "err:update",
           "err:search"}

\* rule loading, build, the optional update and the optional search succeeded
AllSucceeded ==
    /\ ("ok:" \o algrthms[cfg.algrthm_id].load_rules \o ":rs") \in hist
    /\ "ok:build" \in hist
    /\ cfg.u_rule_file # NULL =>
          /\ ("ok:" \o algrthms[cfg.algrthm_id].load_rules \o ":u_rs") \in hist
          /\ "ok:insrt_update" \in hist
    /\ cfg.trace_file # NULL =>
          "ok:load_trace:t" \in hist /\ "ok:search" \in hist

\* the positions from which main, a loader or the engine takes its next step
LivePcs ==
    {"main", "parse_args", "check_rule_file", "load_open", "load_loop",
     "build", "in_build", "build_fail", "build_ok",
     "insrt_update", "in_insrt_update", "insrt_update_fail", "insrt_update_ok",
     "check_trace", "search", "in_search", "search_fail", "search_ok",
     "in_cleanup_347", "in_cleanup_359", "in_cleanup_370"}

\* C3 (as claimed): every run terminates, with exit status 0 when rule
\* loading, build, the optional update and the optional search all succeed,
\* and with a non-zero exit status whenever an error is detected.
C3_ExitStatus ==
    /\ term = "running" => pc \in LivePcs
    /\ (term # "running" /\ AllSucceeded) => (term = "exit" /\ status = 0)
    /\ (term # "running" /\ hist \cap Errors # {}) => (term = "exit" /\ status # 0)

\* C4 (as claimed): at the exit that follows a failed build no index storage
\* created by that build remains allocated.
C4_PartialIndexReleased ==
    (term # "running" /\ "err:build" \in hist) => rt \in {"none", "freed"}

ExactProto(kind, r, pp) ==
    IF kind = "load_cb_rules" THEN r.dim[DIM_PROTO] = <<pp, pp>>
    ELSE r.dim[DIM_PROTO] = pp /\ r.len[DIM_PROTO] = 8
WildProto(kind, r) ==
    IF kind = "load_cb_rules" THEN r.dim[DIM_PROTO] = <<0, 255>>
    ELSE r.dim[DIM_PROTO] = 0 /\ r.len[DIM_PROTO] = 0

\* C8: in both rule loaders mask 0xFF stores an exact protocol match, mask
\* 0x00 the wildcard, and a line with any other mask ends the run with a
\* non-zero exit, so build and insrt_update never see a rule set that holds one.
C8_ProtoMask ==
    LET kind == algrthms[cfg.algrthm_id].load_rules
    IN  /\ \A b \in {rs, u_rs} :
              /\ \A k \in DOMAIN b.buf :
                    /\ b.src[k].pm = 255 => ExactProto(kind, b.buf[k], b.src[k].proto % 256)
                    /\ b.src[k].pm = 0 => WildProto(kind, b.buf[k])
              /\ \A k \in DOMAIN b.src :
                    b.src[k].pm \notin {255, 0} =>
                        /\ term = "exit" /\ status # 0
                        /\ k > Len(b.buf)
        /\ Called("build") => \A k \in DOMAIN rs.src : rs.src[k].pm \in {255, 0}
        /\ Called("insrt_update") => \A k \in DOMAIN u_rs.src : u_rs.src[k].pm \in {255, 0}

\* a loaded rule set with an exact and a wildcard rule, handed to build
C8_Witness ==
    /\ pc = "in_build"
    /\ Len(rs.buf) = 2
    /\ rs.src[1].pm = 255 /\ rs.src[2].pm = 0

\* the loader call has ended: it returned, or the run ended inside its loop
LoaderOver ==
    \/ ld.fp = "closed"
    \/ ld.fp = "open" /\ term # "running" /\ hist \cap {"err:calloc"} = {}

\* C9 (as claimed): the stored records never exceed the cap, no record is
\* written at an index >= the cap, and the capacity error occurs exactly when
\* the input holds more records than the cap.
C9_CapacityAsClaimed ==
    /\ \A b \in {rs, u_rs} : b.num <= RULE_MAX /\ Len(b.buf) <= RULE_MAX
    /\ t.num <= PKT_MAX /\ Len(t.buf) <= PKT_MAX
    /\ ld.wmax < Cap(ld.kind)
    /\ LoaderOver => ("err:capacity" \in hist <=> ld.recs > Cap(ld.kind))

\* C9 (amended): the stored records never exceed the cap, no record is
\* written at an index >= the cap, and the capacity error occurs exactly when
\* the first cap records were all stored and the input does not end there
\* (ld.total counts every line of the input, ld.recs the well-formed ones).
C9_Capacity ==
    /\ \A b \in {rs, u_rs} : b.num <= RULE_MAX /\ Len(b.buf) <= RULE_MAX
    /\ t.num <= PKT_MAX /\ Len(t.buf) <= PKT_MAX
    /\ ld.wmax < Cap(ld.kind)
    /\ LoaderOver =>
          ("err:capacity" \in hist <=>
              (Target(ld.tgt).num = Cap(ld.kind) /\ ld.total > Cap(ld.kind)))

\* a trace of exactly PKT_MAX packets has been loaded
C9_Witness ==
    /\ ld.kind = "load_trace" /\ ld.fp = "closed"
    /\ ld.total = PKT_MAX /\ t.num = PKT_MAX /\ ld.wmax = PKT_MAX - 1

\* control is outside the loaders: back in main, or in exit
OutsideLoader == pc \notin {"load_open", "load_loop"}

\* C11 (as claimed): a file a loader has opened is closed by the time control
\* has left the loader, whether it returned or ended the run on a format
\* error, an unsupported protocol mask, the capacity limit or a failed
\* buffer allocation.
C11_FilesClosed ==
    (OutsideLoader /\ ld.fp # "none") => ld.fp = "closed"

\* C12 (as claimed): once search has returned success the run is not ended
\* by a signal, the speed printed is num_packets * 1000000 / elapsed, and
\* the run ends with exit status 0 with the trace and the index released,
\* for every elapsed time, 0 included.
C12_Throughput ==
    "ok:search" \in hist =>
        /\ term # "signal"
        /\ pps.printed
        /\ timediff # 0 => pps.val = Throughput(t.num, timediff)
        /\ term = "exit" => status = 0 /\ ~t.alloc /\ rt = "freed"

\* the number of times main has invoked op
Calls(op) ==
    Cardinality({k \in DOMAIN oplog : oplog[k].ev = "call" /\ oplog[k].op = op})

\* build has returned 0
BuildSucceeded == Len(oplog) >= 2 /\ oplog[2].op = "build" /\ oplog[2].res = 0

\* the run ended inside a loader
EndedInLoader ==
    hist \cap {"err:fopen", "err:calloc", "err:capacity", "err:format", "err:mask"} # {}

\* C13 (as claimed): when the driver ends after a successful build (no trace
\* file, insrt_update failure, search failure, completion after search),
\* cleanup has been invoked exactly once, and when search is invoked the
\* rule buffers of the build and of the update have been released.
C13_CleanupOnce ==
    /\ (term # "running" /\ BuildSucceeded /\ ~EndedInLoader) => Calls("cleanup") = 1
    /\ Called("search") => ~rs.alloc /\ ~u_rs.alloc

(***************************************************************************)
(* SpecRule: the loaders' per-line computation on one scanned line.        *)
(***************************************************************************)
IpPool      == {<<0, 0, 0, 0>>, <<10, 1, 2, 3>>, <<255, 255, 255, 255>>, <<266, 1, 2, 3>>}
LenPool     == {0, 1, 8, 31, 32, 33}
DstPool     == {<<<<192, 168, 0, 1>>, 24>>, <<<<1, 2, 3, 4>>, 40>>}
PortPool    == {0, 80, 65535, 65616}
Port2Pool   == {0, 8, 17, 65535}
DPortPool   == {<<80, 8>>, <<1023, 0>>}
ProtoPool   == {6, 262}
PMaskPool   == {255, 0, 15}
IdPool      == {0, 5}

ScannedLines ==
    { [sip |-> a, sm |-> m, dip |-> d[1], dm |-> d[2],
       sp1 |-> p1, sp2 |-> p2, dp1 |-> dp[1], dp2 |-> dp[2],
       proto |-> pr, pm |-> k, id |-> n] :
         a \in IpPool, m \in LenPool, d \in DstPool, p1 \in PortPool,
         p2 \in Port2Pool, dp \in DPortPool, pr \in ProtoPool,
         k \in PMaskPool, n \in IdPool }

RuleInit ==
    /\ DrvIdle /\ EngIdle
    /\ r_pc = "scanned"
    /\ r_line \in ScannedLines
    /\ r_out = NULL

\* load_cb_rules, one line: the fields, then the protocol branch
RuleCb ==
    /\ r_pc = "scanned"
    /\ IF ProtoMaskOk(r_line.pm)
       THEN r_pc' = "cb" /\ r_out' = CbRuleOf(r_line)
       ELSE r_pc' = "cb_fatal" /\ r_out' = NULL
    /\ UNCHANGED <<r_line, drv, eng>>

\* load_prfx_rules, one line
RulePrfx ==
    /\ r_pc = "scanned"
    /\ IF ProtoMaskOk(r_line.pm)
       THEN r_pc' = "prfx" /\ r_out' = PrfxRuleOf(r_line)
       ELSE r_pc' = "prfx_fatal" /\ r_out' = NULL
    /\ UNCHANGED <<r_line, drv, eng>>

RuleNext == RuleCb \/ RulePrfx

SpecRule == RuleInit /\ [][RuleNext]_vars

\* the address a line names and its clamped mask length, as words
WordLeq(d, a, b) == IF d <= DIM_DIP THEN WLeq(a, b) ELSE a <= b
InWidth(d, a) ==
    IF d <= DIM_DIP THEN Len(a) = 2 /\ \A k \in 1..2 : a[k] \in 0..65535
    ELSE a >= 0 /\ a < Pow2(W[d])

\* C6: every range rule load_cb_rules stores has low <= high in each of the
\* five dimensions, both ends inside the dimension's width.
C6_RangeWellFormed ==
    r_pc = "cb" =>
        \A d \in Dims :
            /\ WordLeq(d, r_out.dim[d][1], r_out.dim[d][2])
            /\ InWidth(d, r_out.dim[d][1])
            /\ InWidth(d, r_out.dim[d][2])

\* a stored rule whose source ports were given out of order and whose mask
\* length was above 32
C6_Witness ==
    /\ r_pc = "cb"
    /\ r_line.sp1 = 65535 /\ r_line.sp2 = 8
    /\ r_line.sm = 33
    /\ r_out.dim[DIM_SPORT] = <<8, 65535>>

\* C7 (as claimed): every prefix rule load_prfx_rules stores has, in every
\* dimension, 0 <= len <= W[d], a value whose bits below the prefix are zero,
\* and a protocol length of 8 or 0.
PrefixMasked(d, v, l) ==
    IF d <= DIM_DIP THEN \A k \in 1..W[d] : k > l => Bit32(v, k) = 0
    ELSE \A k \in 1..W[d] : k > l => (v \div Pow2(W[d] - k)) % 2 = 0
C7_PrefixWellFormed ==
    r_pc = "prfx" =>
        /\ \A d \in Dims :
              /\ 0 <= r_out.len[d] /\ r_out.len[d] <= W[d]
              /\ PrefixMasked(d, r_out.dim[d], r_out.len[d])
        /\ r_out.len[DIM_PROTO] \in {8, 0}

\* C10: for every address ip and mask length m (32 when larger), the stored
\* source range is low = ip with the 32-m low bits cleared, high = ip with
\* them set; m = 0 gives [0, 2^32-1] and m >= 32 gives [ip, ip].
C10_IpRange ==
    r_pc = "cb" =>
        LET ip == IpOf(r_line.sip)
            m  == IF r_line.sm > 32 THEN 32 ELSE r_line.sm
            lo == r_out.dim[DIM_SIP][1]
            hi == r_out.dim[DIM_SIP][2]
        IN  /\ InWidth(DIM_SIP, lo) /\ InWidth(DIM_SIP, hi)
            /\ \A k \in 1..32 :
                  /\ k <= m => Bit32(lo, k) = Bit32(ip, k) /\ Bit32(hi, k) = Bit32(ip, k)
                  /\ k > m  => Bit32(lo, k) = 0 /\ Bit32(hi, k) = 1
            /\ r_line.sm = 0   => lo = <<0, 0>> /\ hi = <<65535, 65535>>
            /\ r_line.sm >= 32 => lo = ip /\ hi = ip

\* mask length 0 on a non-zero address: the shift is by 32
C10_Witness ==
    /\ r_pc = "cb"
    /\ r_line.sm = 0
    /\ r_line.sip = <<10, 1, 2, 3>>
    /\ r_out.dim[DIM_SIP][2] = <<65535, 65535>>

(***************************************************************************)
(* The engines.  hs.c, tss.c and pc_eval.h are not among the sources; the  *)
(* definitions below follow spec.md sections 3, 4.2 and 4.3.  The key      *)
(* space is scaled: EW gives the engine model's width of each dimension,   *)
(* so that every packet of the key space can be searched.                  *)
(***************************************************************************)
EW == <<2, 1, 1, 1, 1>>
EMax(d) == Pow2(EW[d]) - 1
Packets ==
    {<<a, b, c, e, f>> : a \in 0..EMax(1), b \in 0..EMax(2), c \in 0..EMax(3),
                         e \in 0..EMax(4), f \in 0..EMax(5)}

BINTH        == 1    \* small-leaf threshold (default 8), scaled
HS_MAX_DEPTH == 4    \* configurable maximum recursion depth
TSS_NBUCKET  == 2    \* slots of a tuple's hash table

MaxRules == 3        \* rules in a rule set
MaxDelta == 1        \* rules in an update set

NoMatch == [hit |-> FALSE, pri |-> 0]
Hit(pri) == [hit |-> TRUE, pri |-> pri]

\* the smallest element of a non-empty set of integers
MinOf(S) == CHOOSE x \in S : \A y \in S : x <= y

\* ---- HyperSplit ----
\* a range rule contains the packet in every dimension
RangeMatch(r, p) == \A d \in Dims : r.dim[d][1] <= p[d] /\ p[d] <= r.dim[d][2]

\* indices S of rs as a sequence in ascending priority
RECURSIVE SortByPri(_, _)
SortByPri(rset, S) ==
    IF S = {} THEN <<>>
    ELSE LET k == CHOOSE x \in S :
                     \A y \in S : rset[x].pri < rset[y].pri \/ (rset[x].pri = rset[y].pri /\ x <= y)
         IN  <<rset[k]>> \o SortByPri(rset, S \ {k})

HsLeaf(rset, S, depth) ==
    [leaf |-> TRUE, d2s |-> 0, thresh |-> 0, depth |-> depth,
     rules |-> SortByPri(rset, S), child |-> <<>>]

\* the rules of each side of a split (d, th); a straddling rule is in both
HsLeft(rset, S, d, th) == {k \in S : rset[k].dim[d][1] <= th}
\* the right side losing the rules that straddle the threshold
HsRight_Mut(rset, S, d, th) == {k \in S : rset[k].dim[d][1] > th}
HsRight(rset, S, d, th) == {k \in S : rset[k].dim[d][2] > th}

Clip(x, lo, hi) == IF x < lo THEN lo ELSE IF x > hi THEN hi ELSE x

\* candidate thresholds of dimension d: the distinct range endpoints of the
\* rules of S, clipped to the cell; a threshold leaves both half-cells
\* [lo, th] and [th+1, hi] non-empty
HsCands(rset, S, C, d) ==
    {x \in {Clip(rset[k].dim[d][j], C[d][1], C[d][2]) : k \in S, j \in 1..2} :
        x < C[d][2]}

HsCost(rset, S, d, th) ==
    Cardinality(HsLeft(rset, S, d, th)) + Cardinality(HsRight(rset, S, d, th))

\* the split of least cost; ties go to the lower dimension, then the lower
\* threshold
HsBest(rset, S, C) ==
    LET all == {<<d, th>> : d \in Dims, th \in 0..EMax(1)}
        cs  == {c \in all : c[2] \in HsCands(rset, S, C, c[1])}
        Before(a, b) ==
            LET ca == HsCost(rset, S, a[1], a[2])
                cb == HsCost(rset, S, b[1], b[2])
            IN  \/ ca < cb
                \/ ca = cb /\ a[1] < b[1]
                \/ ca = cb /\ a[1] = b[1] /\ a[2] <= b[2]
    IN  IF cs = {} THEN <<0, 0>>
        ELSE CHOOSE a \in cs : \A b \in cs : Before(a, b)

RECURSIVE HsNode(_, _, _, _)
HsNode(rset, S, C, depth) ==
    IF Cardinality(S) <= BINTH \/ depth > HS_MAX_DEPTH
    THEN HsLeaf(rset, S, depth)
    ELSE LET best == HsBest(rset, S, C)
             d    == best[1]
             th   == best[2]
         IN  IF d = 0 THEN HsLeaf(rset, S, depth)
             ELSE LET L == HsLeft(rset, S, d, th)
                      R == HsRight(rset, S, d, th)
                  IN  IF Cardinality(L) = Cardinality(S) /\ Cardinality(R) = Cardinality(S)
                      THEN HsLeaf(rset, S, depth)
                      ELSE [leaf |-> FALSE, d2s |-> d, thresh |-> th, depth |-> depth,
                            rules |-> <<>>,
                            child |-> <<HsNode(rset, L, [C EXCEPT ![d][2] = th], depth + 1),
                                        HsNode(rset, R, [C EXCEPT ![d][1] = th + 1], depth + 1)>>]

FullCell == [d \in Dims |-> <<0, EMax(d)>>]

hs_build(rset) == HsNode(rset, DOMAIN rset, FullCell, 0)

\* the first rule of a priority-sorted list that contains the packet
FirstRange(rules, p) ==
    LET m == {k \in DOMAIN rules : RangeMatch(rules[k], p)}
    IN  IF m = {} THEN NoMatch ELSE Hit(rules[MinOf(m)].pri)

RECURSIVE HsLookup(_, _)
HsLookup(node, p) ==
    IF node.leaf THEN FirstRange(node.rules, p)
    ELSE IF p[node.d2s] <= node.thresh THEN HsLookup(node.child[1], p)
    ELSE HsLookup(node.child[2], p)

\* ---- Tuple space search ----
\* v & mask(len) in a dimension w bits wide
MaskTo(v, len, w) == v - (v % Pow2(w - len))

MaskedKey(p, L) == [d \in Dims |-> MaskTo(p[d], L[d], EW[d])]

TssHash(key) == ((key[1] + key[2] + key[3] + key[4] + key[5]) % TSS_NBUCKET) + 1

\* a prefix rule contains the packet in every dimension
PrefixMatch(r, p) == \A d \in Dims : MaskTo(p[d], r.len[d], EW[d]) = r.dim[d]

\* the chain with entry e added, ascending priority kept
TssChainInsert(chain, e) ==
    LET pre == Cardinality({k \in DOMAIN chain : chain[k].pri <= e.pri})
    IN  SubSeq(chain, 1, pre) \o <<e>> \o SubSeq(chain, pre + 1, Len(chain))

\* rule r added to its tuple's table; the tuple is created when it is new
TssInsert(idx, r) ==
    LET at  == {k \in DOMAIN idx : idx[k].tuple = r.len}
        e   == [key |-> r.dim, pri |-> r.pri]
        h   == TssHash(r.dim)
        new == [tuple |-> r.len, table |-> [s \in 1..TSS_NBUCKET |-> <<>>]]
        base == IF at = {} THEN Append(idx, new) ELSE idx
        k    == IF at = {} THEN Len(idx) + 1 ELSE MinOf(at)
    IN  [base EXCEPT ![k].table[h] = TssChainInsert(base[k].table[h], e)]

RECURSIVE TssInsertAll(_, _, _)
TssInsertAll(idx, rset, k) ==
    IF k > Len(rset) THEN idx ELSE TssInsertAll(TssInsert(idx, rset[k]), rset, k + 1)

\* build: a new index of the rules of rs, stored behind *userdata
tss_build(rset) == TssInsertAll(<<>>, rset, 1)

\* one tuple's probe: the first entry of the chain with the masked key
TssProbe(b, p) ==
    LET key   == MaskedKey(p, b.tuple)
        chain == b.table[TssHash(key)]
        m     == {k \in DOMAIN chain : chain[k].key = key}
    IN  IF m = {} THEN NoMatch ELSE Hit(chain[MinOf(m)].pri)

TssLookup(idx, p) ==
    LET hits == {TssProbe(idx[k], p).pri : k \in {j \in DOMAIN idx : TssProbe(idx[j], p).hit}}
    IN  IF hits = {} THEN NoMatch ELSE Hit(MinOf(hits))

\* ---- dispatch through the table ----
RunBuild(fn, rules) == IF fn = "hs_build" THEN hs_build(rules) ELSE tss_build(rules)
RunSearch(fn, idx, p) == IF fn = "hs_search" THEN HsLookup(idx, p) ELSE TssLookup(idx, p)

\* ---- rule sets ----
EFull(d) == <<0, EMax(d)>>
RangePool ==
    { [dim |-> <<EFull(1), EFull(2), EFull(3), EFull(4), EFull(5)>>, pri |-> 3],
      [dim |-> <<<<1, 2>>, EFull(2), <<0, 0>>, EFull(4), EFull(5)>>, pri |-> 0],
      [dim |-> <<<<2, 3>>, EFull(2), EFull(3), EFull(4), <<1, 1>>>>, pri |-> 2],
      [dim |-> <<<<0, 1>>, <<1, 1>>, EFull(3), <<0, 1>>, EFull(5)>>, pri |-> 1],
      [dim |-> <<<<3, 3>>, EFull(2), <<1, 1>>, EFull(4), EFull(5)>>, pri |-> -1] }
PrefixPool ==
    { [dim |-> <<0, 0, 0, 0, 0>>, len |-> <<0, 0, 0, 0, 0>>, pri |-> 3],
      [dim |-> <<2, 0, 0, 0, 0>>, len |-> <<2, 0, 0, 0, 0>>, pri |-> 0],
      [dim |-> <<2, 0, 0, 0, 1>>, len |-> <<1, 0, 0, 0, 1>>, pri |-> 2],
      [dim |-> <<0, 0, 0, 0, 1>>, len |-> <<1, 0, 0, 0, 1>>, pri |-> 1],
      [dim |-> <<2, 0, 0, 0, 1>>, len |-> <<1, 0, 0, 0, 1>>, pri |-> 4] }
DeltaPool ==
    { [dim |-> <<0, 0, 0, 0, 1>>, len |-> <<0, 0, 0, 0, 1>>, pri |-> -1],
      [dim |-> <<2, 0, 0, 0, 0>>, len |-> <<1, 0, 0, 0, 0>>, pri |-> 1],
      [dim |-> <<3, 1, 0, 0, 0>>, len |-> <<2, 1, 0, 0, 0>>, pri |-> 5] }

NonEmptySeqs(S, n) == UNION {[1..k -> S] : k \in 1..n}

EngInit ==
    /\ DrvIdle /\ RuleIdle
    /\ e_pc = "loaded"
    /\ e_alg \in 0..(ALGO_NUM - 1)
    /\ e_rs \in NonEmptySeqs(IF e_alg = 0 THEN RangePool ELSE PrefixPool, MaxRules)
    /\ e_delta = <<>>
    /\ e_idx = <<>>
    /\ e_pkt = <<>>
    /\ e_res = NoMatch

\* algrthms[id].build(&rs, &rt)
Eng_Build ==
    /\ e_pc = "loaded"
    /\ e_idx' = RunBuild(algrthms[e_alg].build, e_rs)
    /\ e_pc' = "built"
    /\ UNCHANGED <<e_alg, e_rs, e_delta, e_pkt, e_res, drv, rule>>

\* algrthms[id].insrt_update(&u_rs, &rt), for the engine that specifies one
Eng_Update ==
    /\ e_pc = "built"
    /\ e_alg = 1
    /\ \E delta \in NonEmptySeqs(DeltaPool, MaxDelta) :
          /\ e_delta' = delta
          /\ e_idx' = RunBuild(algrthms[e_alg].insrt_update, delta)
    /\ e_pc' = "updated"
    /\ UNCHANGED <<e_alg, e_rs, e_pkt, e_res, drv, rule>>

\* the classification of one packet by algrthms[id].search
Eng_Search ==
    /\ e_pc \in {"built", "updated"}
    /\ \E p \in Packets :
          /\ e_pkt' = p
          /\ e_res' = RunSearch(algrthms[e_alg].search, e_idx, p)
    /\ e_pc' = IF e_pc = "built" THEN "searched" ELSE "searched_u"
    /\ UNCHANGED <<e_alg, e_rs, e_delta, e_idx, drv, rule>>

EngNext == Eng_Build \/ Eng_Update \/ Eng_Search

SpecEngine == EngInit /\ [][EngNext]_vars

\* the smallest priority among the rules of a set that match the packet
BestMatch(alg, rules, p) ==
    LET m == {k \in DOMAIN rules :
                IF alg = 0 THEN RangeMatch(rules[k], p) ELSE PrefixMatch(rules[k], p)}
    IN  IF m = {} THEN NoMatch ELSE Hit(MinOf({rules[k].pri : k \in m}))

\* C1: for both engines, search on the index returned by build(rs) yields
\* the smallest priority among the rules of rs that match the packet, and
\* "no match" exactly when none matches.
C1_PrioritySelection ==
    e_pc = "searched" => e_res = BestMatch(e_alg, e_rs, e_pkt)

\* a HyperSplit tree with a split, searched with a packet two rules match
C1_Witness ==
    /\ e_pc = "searched" /\ e_alg = 0
    /\ ~e_idx.leaf
    /\ Cardinality({k \in DOMAIN e_rs : RangeMatch(e_rs[k], e_pkt)}) >= 2
    /\ e_res.hit

\* C5 (as claimed): after build(rs) and the driver's insrt_update(delta),
\* a packet that matched r before the update still returns r, unless a rule
\* of delta with strictly smaller priority matches it, which is then returned.
C5_UpdateMonotone ==
    e_pc = "searched_u" =>
        LET before == TssLookup(tss_build(e_rs), e_pkt)
            added  == BestMatch(1, e_delta, e_pkt)
        IN  before.hit =>
                e_res = IF added.hit /\ added.pri < before.pri THEN added ELSE before

=============================================================================
